---- MODULE Spec2Model ----
(***************************************************************************)
(* Audio-to-notes converter (Shipathon2025).  Two capture variants share   *)
(* one processing pipeline:                                                *)
(*   "webrtc" - src/FinalProject2.py: an AudioProcessor whose recv()       *)
(*              callback appends frames while a flag is set; Stop drains   *)
(*              the frames into a temporary WAV file (save_audio).         *)
(*   "thread" - src/unnamed/part_000: a recorder thread per capture reads  *)
(*              the device until a shared stop flag is set and then writes *)
(*              the WAV file; Stop sets the flag and sleeps 0.5 s.         *)
(* The control context (the Streamlit script run) is one process with a    *)
(* program counter mpc; recv() and the recorder threads are the audio      *)
(* producing contexts and interleave with it statement by statement.       *)
(***************************************************************************)
EXTENDS Integers, Sequences, FiniteSets, TLC

\* ------------------------------------------------------------------ bounds
MaxFiles == 2      \* temporary files (captures) created in one behaviour
MaxFrames == 2     \* chunks accepted in one capture, and held by one list
NumChunks == 2     \* distinct chunk values the audio source delivers
MaxLen == 8        \* characters of a text given to create_formatted_doc

\* --------------------------------------------------------------- constants
NoFile == [kind |-> "absent", data |-> <<>>]
EmptyFile == [kind |-> "raw", data |-> <<>>]     \* NamedTemporaryFile: 0 bytes
None == <<"None">>                               \* Python None (notes, doc)

\* A chunk is a sequence of signed 16-bit samples.
ChunkOf(i) == IF i % 2 = 1 THEN <<i, 0 - (i + 1)>> ELSE <<256 * i + i>>
Chunks == {ChunkOf(i) : i \in 1..NumChunks}

Transcripts == {"hello world"}
NoteTexts == {<<"*", "*", "h", "*", "*", "n">>, <<"x", "*", "*", "y">>}

\* ------------------------------------------------------------ pure helpers
\* ndarray.tobytes() of int16 samples: two bytes per sample, little endian,
\* two's complement.
SampleBytes(s) ==
    LET u == s % 65536 IN <<u % 256, u \div 256>>

RECURSIVE tobytes(_)
tobytes(chunk) ==
    IF chunk = <<>> THEN <<>>
    ELSE SampleBytes(Head(chunk)) \o tobytes(Tail(chunk))

\* b''.join(frames)
RECURSIVE join(_)
join(fs) == IF fs = <<>> THEN <<>> ELSE Head(fs) \o join(Tail(fs))

\* text.find(sub2, from): 0-based index of the first "**" at or after from,
\* or -1.
RECURSIVE find(_, _)
find(text, from) ==
    IF from + 2 > Len(text) THEN 0 - 1
    ELSE IF text[from + 1] = "*" /\ text[from + 2] = "*" THEN from
    ELSE find(text, from + 1)

\* text[a:b] with 0-based bounds
Slice(text, a, b) == SubSeq(text, a + 1, b)

\* The marker loop of create_formatted_doc: the list runs_to_add for text.
RECURSIVE runs_to_add(_)
runs_to_add(text) ==
    LET start == find(text, 0)
        end == find(text, start + 2)
    IN  IF start = 0 - 1 THEN
            IF text # <<>> THEN <<[content |-> text, is_bold |-> FALSE]>> ELSE <<>>
        ELSE IF end = 0 - 1 THEN
            IF text # <<>> THEN <<[content |-> text, is_bold |-> FALSE]>> ELSE <<>>
        ELSE
            (IF start > 0
                THEN <<[content |-> Slice(text, 0, start), is_bold |-> FALSE]>>
                ELSE <<>>)
            \o <<[content |-> Slice(text, start + 2, end), is_bold |-> TRUE]>>
            \o runs_to_add(Slice(text, end + 2, Len(text)))

PyBool(b) == IF b THEN "True" ELSE "False"

\* A variant that sets run.bold only and leaves run.underline unset.
added_run_bold_only(r) ==
    [text |-> r.content, bold |-> PyBool(r.is_bold), underline |-> "None"]

\* `run = paragraph.add_run(content); run.bold = is_bold;
\* run.underline = is_bold`
added_run(r) ==
    [text |-> r.content, bold |-> PyBool(r.is_bold),
     underline |-> PyBool(r.is_bold)]

\* The paragraph's runs after create_formatted_doc: add_paragraph(text) makes
\* one run holding text when text is non-empty; the loop empties that run
\* (run.text = "") without removing it, then one run is added per entry of
\* runs_to_add with bold = underline = is_bold.
RECURSIVE added_runs(_)
added_runs(rs) ==
    IF rs = <<>> THEN <<>>
    ELSE <<added_run(Head(rs))>> \o added_runs(Tail(rs))

create_formatted_doc(text) ==
    (IF text # <<>>
        THEN <<[text |-> <<>>, bold |-> "None", underline |-> "None"]>>
        ELSE <<>>)
    \o added_runs(runs_to_add(text))

\* -------------------------------------------------------------------- state
VARIABLES
    variant,        \* "webrtc" | "thread": which program runs
    \* --- webrtc variant: the AudioProcessor and the recv() callback
    processor,      \* ctx.video_processor is not None (the stream plays)
    frames,         \* AudioProcessor.frames
    recording,      \* AudioProcessor.recording
    rpc,            \* recv(): "idle" | "append" (flag tested, append pending)
    rchunk,         \* the chunk recv() is about to append
    widx,           \* save_audio: frames already written by the for loop
    tmp,            \* temp_audio of the running Stop handler (0: none)
    \* --- thread variant: session state and the recorder threads
    ss_recording,   \* st.session_state.recording
    has_flag,       \* hasattr(st.session_state, 'stop_flag')
    stop_flag,      \* stop_flag[i][0] of capture i (one list per Start)
    audio_file,     \* st.session_state.audio_file (0: None)
    tpc,            \* recorder thread i: "none"|"loop"|"open"|"write"|"done"
    tframes,        \* recorder thread i: its local list frames
    \* --- shared by both variants
    mpc,            \* control context: position in the button handler
    files,          \* the temporary files: id -> content or NoFile
    nfiles,         \* temporary files created so far
    text,           \* transcribed_text
    notes,          \* st.session_state.notes
    doc_buffer,     \* st.session_state.doc_buffer (the paragraph's runs)
    st_error,       \* the error the running/last Stop handler gave st.error
    \* --- history (observation only, never read by the program)
    calls,          \* collaborator calls of the running/last Stop handling
    accepted,       \* chunks recv() took while recording, since the last Start
    finished,       \* temp files whose Stop handling has finished
    hStop,          \* facts about the running/last Start and Stop handling
    \* --- one call of create_formatted_doc, statement by statement
    pinput,         \* the argument text
    ptext,          \* the local text of the marker loop
    pruns,          \* the local list runs_to_add
    pdoc,           \* paragraph.runs
    ppc             \* "off"|"start"|"loop"|"tail"|"clear"|"add"|"done"

avars == <<processor, frames, recording, rpc, rchunk, widx, tmp>>
bvars == <<ss_recording, has_flag, stop_flag, audio_file, tpc, tframes>>
pvars == <<text, notes, doc_buffer, st_error>>
cvars == <<pinput, ptext, pruns, pdoc, ppc>>
vars == <<variant, avars, bvars, mpc, files, nfiles, pvars,
          calls, accepted, finished, hStop, cvars>>

FileIds == 1..MaxFiles

NoStop == [req |-> FALSE, seen |-> FALSE, wasRecording |-> FALSE,
           startRec |-> FALSE, drain |-> "none",
           again |-> FALSE, drained |-> FALSE, audio |-> NoFile,
           preNotes |-> None, preDoc |-> None]

\* The session before the first button press.
InitSession ==
    /\ processor = FALSE
    /\ frames = <<>>
    /\ recording = FALSE
    /\ rpc = "idle"
    /\ rchunk = <<>>
    /\ widx = 0
    /\ tmp = 0
    /\ ss_recording = FALSE
    /\ has_flag = FALSE
    /\ stop_flag = [i \in FileIds |-> FALSE]
    /\ audio_file = 0
    /\ tpc = [i \in FileIds |-> "none"]
    /\ tframes = [i \in FileIds |-> <<>>]
    /\ mpc = "idle"
    /\ files = [i \in FileIds |-> NoFile]
    /\ nfiles = 0
    /\ text = "none"
    /\ notes = None
    /\ doc_buffer = None
    /\ st_error = "none"
    /\ calls = <<>>
    /\ accepted = <<>>
    /\ finished = {}
    /\ hStop = NoStop

\* No call of create_formatted_doc is being followed.
ParseOff ==
    /\ pinput = <<>>
    /\ ptext = <<>>
    /\ pruns = <<>>
    /\ pdoc = <<>>
    /\ ppc = "off"

Init ==
    /\ variant \in {"webrtc", "thread"}
    /\ InitSession
    /\ ParseOff


\* ------------------------------------------------- webrtc variant: stream
\* webrtc_streamer(video_processor_factory=AudioProcessor): when the stream
\* starts playing a fresh AudioProcessor is constructed (frames = [],
\* recording = False); when it stops, ctx.video_processor is None.  The
\* stream is toggled between script runs and between recv() calls.
StreamStart ==
    /\ variant = "webrtc" /\ mpc = "idle" /\ rpc = "idle"
    /\ ~processor
    /\ processor' = TRUE
    /\ frames' = <<>>
    /\ recording' = FALSE
    /\ accepted' = <<>>
    /\ hStop' = [hStop EXCEPT !.seen = FALSE, !.drained = FALSE]
    /\ UNCHANGED <<variant, cvars, rpc, rchunk, widx, tmp, bvars, mpc, files, nfiles,
                   pvars, calls, finished>>

StreamStop ==
    /\ variant = "webrtc" /\ mpc = "idle" /\ rpc = "idle"
    /\ processor
    /\ processor' = FALSE
    /\ UNCHANGED <<variant, cvars, frames, recording, rpc, rchunk, widx, tmp, bvars,
                   mpc, files, nfiles, pvars, calls, accepted, finished, hStop>>

\* ---------------------------------------------- webrtc variant: recv()
\* recv() that appends whatever the flag says
recv_accepts_always(rec) == TRUE

\* `if self.recording:`
recv_accepts(rec) == rec

\* `self.frames.append(audio_data.copy())`
recv_append(fs, c) == Append(fs, c)

\* recv(frame), first half: the test of the flag.  The frame is converted
\* (to_ndarray) before the append, so the append is a later step.  With
\* observe, the history variable accepted records the chunk taken.
Recv_Test(observe) ==
    /\ variant = "webrtc" /\ processor /\ rpc = "idle"
    /\ \E c \in Chunks :
        IF recv_accepts(recording)
        THEN /\ Len(frames) < MaxFrames
             /\ Len(accepted) < MaxFrames
             /\ rpc' = "append"
             /\ rchunk' = c
             /\ accepted' = IF observe THEN Append(accepted, c) ELSE accepted
        ELSE /\ rpc' = "idle"
             /\ rchunk' = c
             /\ UNCHANGED accepted
    /\ UNCHANGED <<variant, cvars, processor, frames, recording, widx, tmp, bvars,
                   mpc, files, nfiles, pvars, calls, finished, hStop>>

\* recv(frame), second half: the append and the return.
Recv_Append ==
    /\ variant = "webrtc" /\ rpc = "append"
    /\ frames' = recv_append(frames, rchunk)
    /\ rpc' = "idle"
    /\ UNCHANGED <<variant, cvars, processor, recording, rchunk, widx, tmp, bvars,
                   mpc, files, nfiles, pvars, calls, accepted, finished, hStop>>

\* ------------------------------------- webrtc variant: "Start Recording"
\* a Start handler that keeps the residual chunks
start_frames_kept(fs) == fs

\* `ctx.video_processor.frames = []`
start_frames(fs) == <<>>

\* `ctx.video_processor.recording = True`
A_StartFlag ==
    /\ variant = "webrtc" /\ mpc = "idle"
    /\ IF processor
       THEN /\ recording' = TRUE
            /\ mpc' = "start_clear"
            /\ accepted' = <<>>
            /\ hStop' = [hStop EXCEPT !.seen = FALSE, !.startRec = recording]
       ELSE UNCHANGED <<recording, mpc, accepted, hStop>>
    /\ UNCHANGED <<variant, cvars, processor, frames, rpc, rchunk, widx, tmp, bvars,
                   files, nfiles, pvars, calls, finished>>

\* `ctx.video_processor.frames = []`, then st.rerun()
A_StartClear ==
    /\ variant = "webrtc" /\ mpc = "start_clear"
    /\ frames' = start_frames(frames)
    /\ mpc' = "idle"
    /\ hStop' = [hStop EXCEPT !.drained = FALSE, !.startRec = FALSE]
    /\ UNCHANGED <<variant, cvars, processor, recording, rpc, rchunk, widx, tmp,
                   bvars, files, nfiles, pvars, calls, accepted, finished>>

\* -------------------------------------- webrtc variant: "Stop Recording"
\* `ctx.video_processor.recording = False` and the creation of the
\* temporary file (NamedTemporaryFile(delete=False)).
A_StopFlag ==
    /\ variant = "webrtc" /\ mpc = "idle"
    /\ nfiles < MaxFiles
    /\ IF processor
       THEN /\ recording' = FALSE
            /\ nfiles' = nfiles + 1
            /\ tmp' = nfiles + 1
            /\ files' = [files EXCEPT ![nfiles + 1] = EmptyFile]
            /\ mpc' = "save_check"
            /\ st_error' = "none"
            /\ calls' = <<>>
            /\ hStop' = [hStop EXCEPT !.req = TRUE,
                                      !.seen = TRUE,
                                      !.wasRecording = recording,
                                      !.drain = "none",
                                      !.again = hStop.drained,
                                      !.audio = NoFile,
                                      !.preNotes = notes,
                                      !.preDoc = doc_buffer]
       ELSE UNCHANGED <<recording, nfiles, tmp, files, mpc, st_error, calls,
                        hStop>>
    /\ UNCHANGED <<variant, cvars, processor, frames, rpc, rchunk, widx, bvars,
                   text, notes, doc_buffer, accepted, finished>>

\* `if not self.frames or len(self.frames) == 0: return False`
save_audio_empty(fs) == fs = <<>>

\* save_audio, the test: with no frames it returns False, the `with` block
\* closes the temporary file (delete=False keeps it) and the script reruns;
\* otherwise wave.open(filename, 'wb') truncates the file.
A_SaveCheck ==
    /\ variant = "webrtc" /\ mpc = "save_check"
    /\ IF save_audio_empty(frames)
       THEN /\ mpc' = "idle"
            /\ finished' = finished \cup {tmp}
            /\ hStop' = [hStop EXCEPT !.drain = "empty"]
            /\ UNCHANGED <<files, widx>>
       ELSE /\ mpc' = "save_write"
            /\ files' = [files EXCEPT ![tmp] = [kind |-> "wav_open", data |-> <<>>]]
            /\ widx' = 0
            /\ UNCHANGED <<finished, hStop>>
    /\ UNCHANGED <<variant, cvars, processor, frames, recording, rpc, rchunk, tmp,
                   bvars, nfiles, pvars, calls, accepted>>

\* save_audio, `for frame in self.frames: wav_file.writeframes(...)`: one
\* iteration, or the end of the loop (the list iterator reads the list's
\* current length), the close of the WAV file and `return True`.
A_SaveWrite ==
    /\ variant = "webrtc" /\ mpc = "save_write"
    /\ IF widx < Len(frames)
       THEN /\ files' = [files EXCEPT ![tmp].data = @ \o tobytes(frames[widx + 1])]
            /\ widx' = widx + 1
            /\ UNCHANGED <<mpc, hStop>>
       ELSE /\ files' = [files EXCEPT ![tmp].kind = "wav"]
            /\ mpc' = "transcribe"
            /\ hStop' = [hStop EXCEPT !.drain = "ok", !.drained = TRUE]
            /\ UNCHANGED widx
    /\ UNCHANGED <<variant, cvars, processor, frames, recording, rpc, rchunk, tmp,
                   bvars, nfiles, pvars, calls, accepted, finished>>

\* `finally: os.unlink(temp_audio.name)`, then st.rerun()
A_Finally ==
    /\ variant = "webrtc" /\ mpc = "finally"
    /\ files' = [files EXCEPT ![tmp] = NoFile]
    /\ finished' = finished \cup {tmp}
    /\ mpc' = "idle"
    /\ UNCHANGED <<variant, cvars, avars, bvars, nfiles, pvars, calls, accepted, hStop>>

\* ----------------------------------------- the pipeline (both variants)
\* The try block of the Stop handler is the same in both programs:
\* transcribe_audio, generate_notes, create_formatted_doc, each of which may
\* raise; `except Exception as e: st.error(...)` ends the block.
CurFile == IF variant = "webrtc" THEN tmp ELSE audio_file

\* a try block that swallows the failure of transcribe_audio
on_transcribed_swallow(ok) == "generate"

\* where the try block continues after transcribe_audio returned (ok) or raised
on_transcribed(ok) == IF ok THEN "generate" ELSE "finally"

\* a try block that calls generate_notes again when it raised
on_generated_retry(ok) == IF ok THEN "render" ELSE "generate"

\* where the try block continues after generate_notes returned (ok) or raised
on_generated(ok) == IF ok THEN "render" ELSE "finally"

\* transcribe_audio(file_path): opens and reads the file, calls the service.
Transcribe ==
    /\ mpc = "transcribe"
    /\ hStop' = [hStop EXCEPT !.audio = files[CurFile]]
    /\ \E ok \in BOOLEAN :
        /\ ok => files[CurFile] # NoFile
        /\ calls' = Append(calls, [op |-> "transcribe", ok |-> ok])
        /\ mpc' = on_transcribed(ok)
        /\ IF ok
           THEN /\ \E t \in Transcripts : text' = t
                /\ UNCHANGED st_error
           ELSE /\ st_error' = "TranscriptionError"
                /\ UNCHANGED text
    /\ UNCHANGED <<variant, cvars, avars, bvars, files, nfiles, notes, doc_buffer,
                   accepted, finished>>

\* notes = generate_notes(transcribed_text); st.session_state.notes = notes
Generate ==
    /\ mpc = "generate"
    /\ \E ok \in BOOLEAN :
        /\ calls' = Append(calls, [op |-> "generate", ok |-> ok])
        /\ mpc' = on_generated(ok)
        /\ IF ok
           THEN /\ \E n \in NoteTexts : notes' = n
                /\ UNCHANGED st_error
           ELSE /\ st_error' = "GenerationError"
                /\ UNCHANGED notes
    /\ UNCHANGED <<variant, cvars, avars, bvars, files, nfiles, text, doc_buffer,
                   accepted, finished, hStop>>

\* st.session_state.doc_buffer = create_formatted_doc(notes)
Render ==
    /\ mpc = "render"
    /\ \E ok \in BOOLEAN :
        /\ calls' = Append(calls, [op |-> "render", ok |-> ok])
        /\ mpc' = "finally"
        /\ IF ok
           THEN /\ doc_buffer' = create_formatted_doc(notes)
                /\ UNCHANGED st_error
           ELSE /\ st_error' = "RenderError"
                /\ UNCHANGED doc_buffer
    /\ UNCHANGED <<variant, cvars, avars, bvars, files, nfiles, text, notes,
                   accepted, finished, hStop>>

\* ------------------------------------- thread variant: "Start Recording"
\* The button is disabled while st.session_state.recording.  The handler
\* sets the flags, creates the temporary file and starts the recorder thread.
B_Start ==
    /\ variant = "thread" /\ mpc = "idle"
    /\ ~ss_recording
    /\ nfiles < MaxFiles
    /\ ss_recording' = TRUE
    /\ has_flag' = TRUE
    /\ stop_flag' = [stop_flag EXCEPT ![nfiles + 1] = FALSE]
    /\ nfiles' = nfiles + 1
    /\ files' = [files EXCEPT ![nfiles + 1] = EmptyFile]
    /\ audio_file' = nfiles + 1
    /\ tpc' = [tpc EXCEPT ![nfiles + 1] = "loop"]
    /\ tframes' = [tframes EXCEPT ![nfiles + 1] = <<>>]
    /\ UNCHANGED <<variant, cvars, avars, mpc, pvars, calls, accepted, finished, hStop>>

\* -------------------------------------- thread variant: "Stop Recording"
\* The button is disabled unless st.session_state.recording.
\* `st.session_state.stop_flag[0] = True`
B_StopFlag ==
    /\ variant = "thread" /\ mpc = "idle"
    /\ ss_recording
    /\ IF has_flag
       THEN /\ stop_flag' = [stop_flag EXCEPT ![audio_file] = TRUE]
            /\ mpc' = "sleep"
            /\ st_error' = "none"
            /\ calls' = <<>>
            /\ hStop' = [hStop EXCEPT !.req = TRUE,
                                      !.seen = TRUE,
                                      !.wasRecording = ss_recording,
                                      !.drain = "none",
                                      !.audio = NoFile,
                                      !.preNotes = notes,
                                      !.preDoc = doc_buffer]
       ELSE UNCHANGED <<stop_flag, mpc, st_error, calls, hStop>>
    /\ UNCHANGED <<variant, cvars, avars, ss_recording, has_flag, audio_file, tpc,
                   tframes, files, nfiles, text, notes, doc_buffer, accepted,
                   finished>>

\* `time.sleep(0.5)` returns, whatever the recorder thread has done meanwhile.
B_Sleep ==
    /\ variant = "thread" /\ mpc = "sleep"
    /\ mpc' = "transcribe"
    /\ UNCHANGED <<variant, cvars, avars, bvars, files, nfiles, pvars, calls,
                   accepted, finished, hStop>>

\* `finally:` unlink the file if it exists, recording = False, st.rerun()
B_Finally ==
    /\ variant = "thread" /\ mpc = "finally"
    /\ IF audio_file # 0 /\ files[audio_file] # NoFile
       THEN files' = [files EXCEPT ![audio_file] = NoFile]
       ELSE UNCHANGED files
    /\ ss_recording' = FALSE
    /\ finished' = finished \cup {audio_file}
    /\ mpc' = "idle"
    /\ UNCHANGED <<variant, cvars, avars, has_flag, stop_flag, audio_file, tpc,
                   tframes, nfiles, pvars, calls, accepted, hStop>>

\* ------------------------------------ thread variant: record_audio thread
\* stream.read(chunk) returns one block of bytes; the recorder never looks
\* into it, so one block value stands for all of them.
ByteChunks == {tobytes(ChunkOf(1))}

\* `while not stop_flag[0]: data = stream.read(chunk); frames.append(data)`
Rec_Read(i) ==
    /\ variant = "thread" /\ tpc[i] = "loop"
    /\ ~stop_flag[i]
    /\ Len(tframes[i]) < MaxFrames
    /\ \E d \in ByteChunks : tframes' = [tframes EXCEPT ![i] = Append(@, d)]
    /\ UNCHANGED <<variant, cvars, avars, ss_recording, has_flag, stop_flag,
                   audio_file, tpc, mpc, files, nfiles, pvars, calls, accepted,
                   finished, hStop>>

\* stream.read raises: `except Exception: st.error(...); break`.  The call
\* of st.error is made on the recorder thread, outside the script run, and
\* is not part of the Stop handler's outcome.
Rec_ReadError(i) ==
    /\ variant = "thread" /\ tpc[i] = "loop"
    /\ ~stop_flag[i]
    /\ tpc' = [tpc EXCEPT ![i] = "open"]
    /\ UNCHANGED <<variant, cvars, avars, ss_recording, has_flag, stop_flag,
                   audio_file, tframes, mpc, files, nfiles, pvars, calls,
                   accepted, finished, hStop>>

\* the loop test finds stop_flag[0] set; the stream is closed
Rec_Exit(i) ==
    /\ variant = "thread" /\ tpc[i] = "loop"
    /\ stop_flag[i]
    /\ tpc' = [tpc EXCEPT ![i] = "open"]
    /\ UNCHANGED <<variant, cvars, avars, ss_recording, has_flag, stop_flag,
                   audio_file, tframes, mpc, files, nfiles, pvars, calls,
                   accepted, finished, hStop>>

\* `wf = wave.open(filename, 'wb')`: creates or truncates the file
Rec_Open(i) ==
    /\ variant = "thread" /\ tpc[i] = "open"
    /\ files' = [files EXCEPT ![i] = [kind |-> "wav_open", data |-> <<>>]]
    /\ tpc' = [tpc EXCEPT ![i] = "write"]
    /\ UNCHANGED <<variant, cvars, avars, ss_recording, has_flag, stop_flag,
                   audio_file, tframes, mpc, nfiles, pvars, calls, accepted,
                   finished, hStop>>

\* `wf.writeframes(b''.join(frames)); wf.close()`: the data and the final
\* header reach the path's file if it is still the one that was opened.
\* The thread ends and its local list is released.
Rec_Write(i) ==
    /\ variant = "thread" /\ tpc[i] = "write"
    /\ IF files[i] # NoFile
       THEN files' = [files EXCEPT ![i] = [kind |-> "wav", data |-> join(tframes[i])]]
       ELSE UNCHANGED files
    /\ tpc' = [tpc EXCEPT ![i] = "done"]
    /\ tframes' = [tframes EXCEPT ![i] = <<>>]
    /\ UNCHANGED <<variant, cvars, avars, ss_recording, has_flag, stop_flag,
                   audio_file, mpc, nfiles, pvars, calls, accepted,
                   finished, hStop>>

\* ------------------------------------------------------------ specification
Next ==
    \/ StreamStart
    \/ StreamStop
    \/ Recv_Test(FALSE)
    \/ Recv_Append
    \/ A_StartFlag
    \/ A_StartClear
    \/ A_StopFlag
    \/ A_SaveCheck
    \/ A_SaveWrite
    \/ A_Finally
    \/ Transcribe
    \/ Generate
    \/ Render
    \/ B_Start
    \/ B_StopFlag
    \/ B_Sleep
    \/ B_Finally
    \/ \E i \in FileIds : Rec_Read(i)
    \/ \E i \in FileIds : Rec_ReadError(i)
    \/ \E i \in FileIds : Rec_Exit(i)
    \/ \E i \in FileIds : Rec_Open(i)
    \/ \E i \in FileIds : Rec_Write(i)

Spec == Init /\ [][Next]_vars

\* ------------------------------------------ sequential specification
\* The webrtc program with no concurrent activity: recv() is called only
\* between script runs and runs to completion before the next handler step.
\* The chunks recv() accepts are recorded in accepted.
InitSeq == Init /\ variant = "webrtc"

NextSeq ==
    \/ StreamStart
    \/ StreamStop
    \/ (mpc = "idle" /\ Recv_Test(TRUE))
    \/ Recv_Append
    \/ (rpc = "idle" /\ A_StartFlag)
    \/ (rpc = "idle" /\ A_StartClear)
    \/ (rpc = "idle" /\ A_StopFlag)
    \/ (rpc = "idle" /\ A_SaveCheck)
    \/ (rpc = "idle" /\ A_SaveWrite)
    \/ (rpc = "idle" /\ A_Finally)
    \/ (rpc = "idle" /\ Transcribe)
    \/ (rpc = "idle" /\ Generate)
    \/ (rpc = "idle" /\ Render)

SpecSeq == InitSeq /\ [][NextSeq]_vars

\* ------------------------------------------ observed specification
\* The webrtc program with recv() running on its own thread, interleaved
\* with the handlers statement by statement as in Spec, and with the chunks
\* recv() accepts recorded in accepted.
NextObs ==
    \/ StreamStart
    \/ StreamStop
    \/ Recv_Test(TRUE)
    \/ Recv_Append
    \/ A_StartFlag
    \/ A_StartClear
    \/ A_StopFlag
    \/ A_SaveCheck
    \/ A_SaveWrite
    \/ A_Finally
    \/ Transcribe
    \/ Generate
    \/ Render

SpecObs == InitSeq /\ [][NextObs]_vars

\* ------------------------------- create_formatted_doc, statement by statement
\* The texts create_formatted_doc is called with: every string of at most
\* MaxLen characters over a marker character and two letters.
Alphabet == {"*", "a", "b"}
Texts == UNION {[1..n -> Alphabet] : n \in 0..MaxLen}

\* paragraph.text: the texts of the paragraph's runs, concatenated
RECURSIVE paragraph_text(_)
paragraph_text(rs) ==
    IF rs = <<>> THEN <<>> ELSE Head(rs).text \o paragraph_text(Tail(rs))

\* `for run in paragraph.runs: run.text = ""`
RECURSIVE cleared_runs(_)
cleared_runs(rs) ==
    IF rs = <<>> THEN <<>>
    ELSE <<[Head(rs) EXCEPT !.text = <<>>]>> \o cleared_runs(Tail(rs))

\* `while "**" in text:`
has_marker(t) == find(t, 0) # 0 - 1


\* A variant that keeps the whole text: `text = text[0:]`.
rest_after_stuck(t, end) == Slice(t, 0, Len(t))
\* `text = text[end + 2:]`
rest_after(t, end) == Slice(t, end + 2, Len(t))


\* A variant that keeps the marker characters in the span: `text[start:end]`.
emphasized_run_with_marker(t, start, end) ==
    [content |-> Slice(t, start, end), is_bold |-> TRUE]
\* `runs_to_add.append((text[start + 2:end], True))`
emphasized_run(t, start, end) ==
    [content |-> Slice(t, start + 2, end), is_bold |-> TRUE]


\* A variant without the `if start > 0` test.
leading_run_always(t, start) ==
    <<[content |-> Slice(t, 0, start), is_bold |-> FALSE]>>
\* `if start > 0: runs_to_add.append((text[:start], False))`
leading_run(t, start) ==
    IF start > 0 THEN <<[content |-> Slice(t, 0, start), is_bold |-> FALSE]>>
    ELSE <<>>


\* A variant that drops a remainder holding an unmatched marker.
trailing_run_dropped(t) ==
    IF t # <<>> /\ ~has_marker(t)
    THEN <<[content |-> t, is_bold |-> FALSE]>> ELSE <<>>
\* `if text: runs_to_add.append((text, False))`
trailing_run(t) ==
    IF t # <<>> THEN <<[content |-> t, is_bold |-> FALSE]>> ELSE <<>>

\* doc = Document(); paragraph = doc.add_paragraph(text): one run holding
\* the text, when it is not empty.  Then `text = paragraph.text` and
\* `runs_to_add = []`.
P_AddParagraph ==
    /\ ppc = "start"
    /\ LET runs == IF pinput # <<>>
                   THEN <<[text |-> pinput, bold |-> "None", underline |-> "None"]>>
                   ELSE <<>>
       IN  /\ pdoc' = runs
           /\ ptext' = paragraph_text(runs)
    /\ pruns' = <<>>
    /\ ppc' = "loop"
    /\ UNCHANGED <<variant, avars, bvars, mpc, files, nfiles, pvars, calls,
                   accepted, finished, hStop, pinput>>

\* One test of the while condition and, when it holds, one iteration.
P_Loop ==
    /\ ppc = "loop"
    /\ IF has_marker(ptext)
       THEN LET start == find(ptext, 0)
                end == find(ptext, start + 2)
            IN  IF end = 0 - 1
                THEN /\ ppc' = "tail"
                     /\ UNCHANGED <<ptext, pruns>>
                ELSE /\ pruns' = pruns \o leading_run(ptext, start)
                                       \o <<emphasized_run(ptext, start, end)>>
                     /\ ptext' = rest_after(ptext, end)
                     /\ UNCHANGED ppc
       ELSE /\ ppc' = "tail"
            /\ UNCHANGED <<ptext, pruns>>
    /\ UNCHANGED <<variant, avars, bvars, mpc, files, nfiles, pvars, calls,
                   accepted, finished, hStop, pinput, pdoc>>

\* `if text: runs_to_add.append((text, False))`
P_Tail ==
    /\ ppc = "tail"
    /\ pruns' = pruns \o trailing_run(ptext)
    /\ ppc' = "clear"
    /\ UNCHANGED <<variant, avars, bvars, mpc, files, nfiles, pvars, calls,
                   accepted, finished, hStop, pinput, ptext, pdoc>>

\* `for run in paragraph.runs: run.text = ""`
P_Clear ==
    /\ ppc = "clear"
    /\ pdoc' = cleared_runs(pdoc)
    /\ ppc' = "add"
    /\ UNCHANGED <<variant, avars, bvars, mpc, files, nfiles, pvars, calls,
                   accepted, finished, hStop, pinput, ptext, pruns>>

\* `for content, is_bold in runs_to_add: run = paragraph.add_run(content);
\* run.bold = is_bold; run.underline = is_bold`, then the document is saved.
P_AddRuns ==
    /\ ppc = "add"
    /\ pdoc' = pdoc \o added_runs(pruns)
    /\ ppc' = "done"
    /\ UNCHANGED <<variant, avars, bvars, mpc, files, nfiles, pvars, calls,
                   accepted, finished, hStop, pinput, ptext, pruns>>

\* One call of create_formatted_doc on any text.
InitParse ==
    /\ variant = "webrtc"
    /\ InitSession
    /\ pinput \in Texts
    /\ ptext = <<>>
    /\ pruns = <<>>
    /\ pdoc = <<>>
    /\ ppc = "start"

NextParse ==
    \/ P_AddParagraph
    \/ P_Loop
    \/ P_Tail
    \/ P_Clear
    \/ P_AddRuns

SpecParse == InitParse /\ [][NextParse]_vars

\* create_formatted_doc is an ordinary function call: the interpreter keeps
\* executing its statements until it returns.
SpecParseFair == SpecParse /\ WF_vars(NextParse)

\* =================================================================== claims
Order == <<"transcribe", "generate", "render">>

\* C1: for every Stop request, in both variants, the temporary WAV file of
\* that capture does not exist once the handling of the stop has finished,
\* and is never re-created afterwards, on every exit path (the path with
\* no captured audio included).
C1_TempFileGone == \A f \in finished : files[f] = NoFile

\* C2: if the Transcription call of a Stop handling fails, the handling
\* ends with the transcription error as its outcome, and neither
\* NoteGeneration nor rendering is invoked for that stop (the stored notes
\* and document stay as they were).
C2_TranscriptionFailure ==
    (Len(calls) >= 1 /\ ~calls[1].ok) =>
        /\ calls = <<[op |-> "transcribe", ok |-> FALSE]>>
        /\ st_error = "TranscriptionError"
        /\ mpc \notin {"generate", "render"}
        /\ notes = hStop.preNotes
        /\ doc_buffer = hStop.preDoc

C2_Witness ==
    /\ mpc = "idle"
    /\ calls = <<[op |-> "transcribe", ok |-> FALSE]>>
    /\ finished # {}

\* C3: within one Stop handling the collaborators are invoked in the order
\* Transcription, NoteGeneration, render, each at most once, and each one
\* only after the one before it has returned successfully.
C3_SequentialCalls ==
    /\ Len(calls) <= 3
    /\ \A i \in 1..Len(calls) :
        /\ i <= 3 => calls[i].op = Order[i]
        /\ i > 1 => calls[i - 1].ok

C3_Witness ==
    /\ Len(calls) = 3
    /\ \A i \in 1..3 : calls[i].ok
    /\ mpc = "idle"

\* C4: when Stop is requested while recording and zero chunks have been
\* accumulated, the drain fails with the empty-buffer error and the
\* handling ends reporting that error, with no collaborator invoked.
C4_EmptyBufferReported ==
    (variant = "webrtc" /\ hStop.req /\ hStop.wasRecording
        /\ hStop.drain = "empty" /\ mpc = "idle") =>
        /\ st_error = "EmptyBufferError"
        /\ calls = <<>>

\* C5: in both variants no WAV file with an empty sample payload is written
\* and handed to Transcription: a drain of zero chunks ends in the
\* empty-buffer failure.
C5_NoEmptyAudio ==
    ~(hStop.audio.kind = "wav" /\ hStop.audio.data = <<>>)

\* C6: a successful drain clears the chunk list, so a second Stop request
\* with no Start in between finds zero chunks, fails with the empty-buffer
\* error and hands nothing to Transcription.
C6_SecondDrainEmpty ==
    (variant = "webrtc" /\ hStop.again) =>
        /\ hStop.drain # "ok"
        /\ mpc # "save_write"
        /\ hStop.audio = NoFile

\* The chunks of a list, sample after sample.
RECURSIVE Samples(_)
Samples(cs) == IF cs = <<>> THEN <<>> ELSE Head(cs) \o Samples(Tail(cs))

\* C7: with no concurrent activity, the payload of the drained WAV file is
\* the concatenation, in arrival order, of exactly the chunks accepted since
\* the Start: none dropped, duplicated, reordered or left from before.
C7_PayloadIsConcatenation ==
    (variant = "webrtc" /\ mpc = "transcribe" /\ Len(accepted) >= 1) =>
        /\ files[tmp].kind = "wav"
        /\ files[tmp].data = tobytes(Samples(accepted))

C7_Witness ==
    /\ mpc = "transcribe"
    /\ Len(accepted) = 2
    /\ accepted[1] # accepted[2]
    /\ files[tmp].data = tobytes(Samples(accepted))

\* C8: recv called while recording is false leaves the chunk list (and all
\* the rest) unchanged and returns normally; called while recording is true
\* it appends exactly that one chunk at the end of the list and changes
\* nothing else; nothing else lengthens the list.
C8_RecvFrame ==
    [][/\ (rpc = "idle" /\ rchunk' # rchunk /\ ~recording) =>
            /\ frames' = frames
            /\ rpc' = "idle"
            /\ UNCHANGED <<processor, recording, mpc, files, nfiles, pvars>>
       /\ (rpc = "idle" /\ rchunk' # rchunk /\ recording) =>
            /\ rpc' = "append"
            /\ frames' = frames
       /\ (rpc = "append" /\ rpc' = "idle") =>
            /\ frames' = Append(frames, rchunk)
            /\ UNCHANGED <<processor, recording, rchunk, mpc, files, nfiles,
                           pvars>>
       /\ Len(frames') > Len(frames) => (rpc = "append" /\ rpc' = "idle")
      ]_vars

C8_Witness ==
    /\ variant = "webrtc"
    /\ rpc = "idle"
    /\ Len(frames) = 2
    /\ frames[2] = rchunk
    /\ frames[1] # rchunk

\* C9: under every interleaving of recv with the Stop handling, the chunk
\* list is not modified after recording has been set to false (until the
\* next Start): the drain sees a stable list and no chunk is left behind.
C9_StableAfterStop ==
    [][(variant = "webrtc" /\ hStop.seen /\ hStop'.seen) => frames' = frames]_vars

\* C10: a Stop request issued while no recording is in progress does not
\* drain the buffer into audio, does not invoke Transcription or
\* NoteGeneration and leaves the stored notes and document unchanged.
C10_StopWhileIdleRejected ==
    (hStop.req /\ ~hStop.wasRecording) =>
        /\ hStop.drain # "ok"
        /\ calls = <<>>
        /\ notes = hStop.preNotes
        /\ doc_buffer = hStop.preDoc

\* C11: a Start request issued while the session is already recording or
\* processing is rejected: it leaves the recording flag and the chunks
\* accumulated so far unchanged and begins no second capture (no second
\* recorder thread, no second temporary file).
C11_StartWhileRecordingRejected ==
    [][/\ (variant = "webrtc" /\ hStop.startRec
            /\ mpc = "start_clear" /\ mpc' = "idle") =>
            /\ frames' = frames
            /\ recording' = recording
       /\ (variant = "thread" /\ ss_recording) =>
            /\ nfiles' = nfiles
            /\ \A i \in FileIds : tpc[i] = "none" => tpc'[i] = "none"
      ]_vars


\* ------------------------------------------------------------ emphasis spans
\* The `**` markers of a text, found by reading it left to right one
\* character at a time: a marker is two adjacent asterisks that are not part
\* of the marker before.  (1-based position of each marker's first asterisk.)
RECURSIVE MarkersFrom(_, _)
MarkersFrom(t, i) ==
    IF i + 1 > Len(t) THEN <<>>
    ELSE IF t[i] = "*" /\ t[i + 1] = "*"
         THEN <<i>> \o MarkersFrom(t, i + 2)
         ELSE MarkersFrom(t, i + 1)

Markers(t) == MarkersFrom(t, 1)

Range(q) == {q[i] : i \in DOMAIN q}

\* every opening marker has a closing one
Balanced(t) == Len(Markers(t)) % 2 = 0

\* the characters of t at positions a..b
Between(t, a, b) == IF a > b THEN <<>> ELSE SubSeq(t, a, b)

\* the text with the characters of its first n markers removed
MarkerChars(t, n) ==
    UNION {{Markers(t)[k], Markers(t)[k] + 1} : k \in 1..n}

RECURSIVE KeepFrom(_, _, _)
KeepFrom(t, i, drop) ==
    IF i > Len(t) THEN <<>>
    ELSE (IF i \in drop THEN <<>> ELSE <<t[i]>>) \o KeepFrom(t, i + 1, drop)

Stripped(t) == KeepFrom(t, 1, MarkerChars(t, Len(Markers(t))))

\* the texts of the spans, concatenated in order
RECURSIVE span_concat(_)
span_concat(rs) ==
    IF rs = <<>> THEN <<>> ELSE Head(rs).content \o span_concat(Tail(rs))

\* the parser has produced its span sequence
Parsed == ppc \in {"clear", "add", "done"}

\* C12: for every input whose `**` markers are balanced, the texts of the
\* spans the parser produced, concatenated in order, are the input with the
\* marker characters removed.
C12_BalancedRoundTrip ==
    (Parsed /\ Balanced(pinput)) => span_concat(pruns) = Stripped(pinput)

\* a balanced input with a marker pair and text before, between and after
C12_Witness ==
    /\ Parsed
    /\ Balanced(pinput)
    /\ Len(Markers(pinput)) = 2
    /\ Len(pruns) = 3
    /\ span_concat(pruns) # pinput
    /\ \A i \in 1..3 : pruns[i].content # <<>>

\* the input up to and including its last matched marker pair, and the text
\* that remains after it
LastPairEnd(t) ==
    LET k == Len(Markers(t))
    IN  IF k < 2 THEN 0
        ELSE Markers(t)[IF k % 2 = 0 THEN k ELSE k - 1] + 1

PairedPart(t) == Between(t, 1, LastPairEnd(t))
Remaining(t) == Between(t, LastPairEnd(t) + 1, Len(t))

\* C13: when a `**` has no closing `**` in the remaining text, the scan stops
\* and all of the remaining text, the unmatched `**` included, is the one
\* trailing span, not emphasized; the spans before it are those of the
\* matched pairs, as if the input had ended after the last pair.
C13_UnmatchedMarkerKept ==
    (Parsed /\ ~Balanced(pinput)) =>
        /\ pruns # <<>>
        /\ pruns[Len(pruns)] =
              [content |-> Remaining(pinput), is_bold |-> FALSE]
        /\ has_marker(Remaining(pinput))
        /\ SubSeq(pruns, 1, Len(pruns) - 1) = runs_to_add(PairedPart(pinput))
        /\ span_concat(pruns) = Stripped(PairedPart(pinput)) \o Remaining(pinput)

\* a matched pair followed by text with an unmatched marker
C13_Witness ==
    /\ Parsed
    /\ Len(Markers(pinput)) = 3
    /\ Len(pruns) = 3
    /\ ~pruns[1].is_bold
    /\ pruns[2].is_bold
    /\ has_marker(pruns[3].content)

is_emphasized(r) == r.is_bold
EmphasizedSpans(rs) == SelectSeq(rs, is_emphasized)

\* C14: each matched marker pair gives exactly one emphasized span holding
\* the text strictly between its markers, empty or not; a span that is not
\* emphasized is never empty; the empty input gives no span and an input
\* without markers gives one span, not emphasized, equal to the input.
C14_SpansOfPairs ==
    Parsed =>
        LET ms == Markers(pinput)
            es == EmphasizedSpans(pruns)
        IN  /\ Len(es) = Len(ms) \div 2
            /\ \A j \in 1..Len(es) :
                  es[j].content = Between(pinput, ms[2 * j - 1] + 2, ms[2 * j] - 1)
            /\ \A i \in 1..Len(pruns) :
                  ~pruns[i].is_bold => pruns[i].content # <<>>
            /\ pinput = <<>> => pruns = <<>>
            /\ (pinput # <<>> /\ ms = <<>>) =>
                  pruns = <<[content |-> pinput, is_bold |-> FALSE]>>

\* the input `****`: one emphasized span with empty text and nothing else
C14_Witness ==
    /\ Parsed
    /\ pinput = <<"*", "*", "*", "*">>
    /\ pruns = <<[content |-> <<>>, is_bold |-> TRUE]>>

\* the document has been saved
Rendered == ppc = "done"

\* C15: the runs of the rendered paragraph are the parsed spans, one to one
\* and in order: as many runs as spans, run i holding the text of span i.
C15_RunPerSpan ==
    Rendered =>
        /\ Len(pdoc) = Len(pruns)
        /\ \A i \in 1..Len(pruns) : pdoc[i].text = pruns[i].content

\* the runs added for the spans are the last Len(pruns) runs of the paragraph
SpanRun(j) == pdoc[Len(pdoc) - Len(pruns) + j]

\* C16: every run of the rendered document has bold equal to underline, and
\* a run created from a span has both equal to the span's emphasized flag.
C16_BoldIsUnderline ==
    Rendered =>
        /\ Len(pdoc) >= Len(pruns)
        /\ \A i \in 1..Len(pdoc) : pdoc[i].bold = pdoc[i].underline
        /\ \A j \in 1..Len(pruns) :
              /\ SpanRun(j).bold = PyBool(pruns[j].is_bold)
              /\ SpanRun(j).underline = PyBool(pruns[j].is_bold)

\* a rendered document with an emphasized and a plain span
C16_Witness ==
    /\ Rendered
    /\ \E j \in 1..Len(pruns) : pruns[j].is_bold /\ SpanRun(j).bold = "True"
    /\ \E j \in 1..Len(pruns) : ~pruns[j].is_bold /\ SpanRun(j).underline = "False"

\* C17: parsing is total: each pass through the marker-scanning loop either
\* stops the scan, leaving text and spans as they are, or strictly shortens
\* the remaining text, and every call reaches its end with a span sequence.
C17_ParsingTotal ==
    /\ [][ppc = "loop" =>
             \/ ppc' = "tail" /\ ptext' = ptext /\ pruns' = pruns
             \/ ppc' = "loop" /\ Len(ptext') < Len(ptext)]_vars
    /\ <>(ppc = "done")

\* a call whose loop ran at least twice before the scan stopped
C17_Witness ==
    /\ ppc = "done"
    /\ Len(EmphasizedSpans(pruns)) >= 2
    /\ Len(ptext) < Len(pinput)

\* C18: in the thread variant, under every interleaving of the recorder
\* thread with the Stop handler, transcription opens the audio file only
\* after the recorder thread has left its loop and written and closed the
\* WAV file, and the recorder thread does not write to the path once the
\* Stop handler has deleted the file.
C18_StopWaitsForRecorder ==
    [][/\ (variant = "thread" /\ mpc = "transcribe" /\ mpc' # "transcribe") =>
            tpc[audio_file] = "done"
       /\ \A i \in FileIds :
            (variant = "thread" /\ i \in finished) => files'[i] = files[i]
      ]_vars

\* C19: under every interleaving of recv with the Start handler, once Start
\* has completed (and while the recording goes on, no recv call in
\* progress) the chunk list holds exactly the chunks recv accepted since
\* recording became true, in order: none older, none of them discarded.
C19_StartKeepsNewChunks ==
    (variant = "webrtc" /\ recording /\ mpc = "idle" /\ rpc = "idle") =>
        frames = accepted

\* C20: between handler runs, whenever both stored notes and a stored
\* document are present (the download is offered), the stored document is
\* the rendering of the stored notes.
C20_DocumentOfStoredNotes ==
    (mpc = "idle" /\ notes # None /\ doc_buffer # None) =>
        doc_buffer = create_formatted_doc(notes)

====
